---------------------------- MODULE Spec2Model ----------------------------
(***************************************************************************)
(* Model of the lf-av-lite scan pipeline (src/scanner): the per-file       *)
(* classifier, the heuristic rules, the archive expander, the directory    *)
(* walker with its exclusion filter, and the report builder.               *)
(*                                                                         *)
(* Names, paths, patterns and digests are strings; headers are sequences   *)
(* of byte values.  File content is represented by what the code derives   *)
(* from it: its size, whether it holds the EICAR string, its SHA-256       *)
(* digest, its first bytes and its Shannon entropy (in hundredths).        *)
(***************************************************************************)
EXTENDS Integers, Sequences, FiniteSets, TLC

(***************************************************************************)
(* String helpers (Python str methods used by the scanner).                *)
(***************************************************************************)
Char(s, i) == SubSeq(s, i, i)

\* the lowercase letter of each uppercase letter
LowerOf ==
    [c \in {Char("ABCDEFGHIJKLMNOPQRSTUVWXYZ", i) : i \in 1..26} |->
        Char("abcdefghijklmnopqrstuvwxyz",
             CHOOSE i \in 1..26 : Char("ABCDEFGHIJKLMNOPQRSTUVWXYZ", i) = c)]

\* str.lower() on one character
LowerChar(c) == IF c \in DOMAIN LowerOf THEN LowerOf[c] ELSE c

RECURSIVE Lower(_)
\* str.lower()
Lower(s) ==
    IF s = "" THEN "" ELSE LowerChar(Char(s, 1)) \o Lower(SubSeq(s, 2, Len(s)))

\* str.startswith(pre)
StartsWith(s, pre) == Len(pre) <= Len(s) /\ SubSeq(s, 1, Len(pre)) = pre

\* str.endswith(suf)
EndsWith(s, suf) ==
    Len(suf) <= Len(s) /\ SubSeq(s, Len(s) - Len(suf) + 1, Len(s)) = suf

\* sub in s
Contains(s, sub) ==
    \E i \in 1..(Len(s) + 1) :
        i + Len(sub) - 1 <= Len(s) /\ SubSeq(s, i, i + Len(sub) - 1) = sub

\* positions of character c in s
Positions(s, c) == {i \in 1..Len(s) : Char(s, i) = c}

\* str.count(".")
DotCount(s) == Cardinality(Positions(s, "."))

\* str.rfind(c), 1-based; 0 when c does not occur
RFind(s, c) ==
    IF Positions(s, c) = {} THEN 0
    ELSE CHOOSE i \in Positions(s, c) : \A j \in Positions(s, c) : j <= i

\* str.find(c), 1-based; 0 when c does not occur
Find(s, c) ==
    IF Positions(s, c) = {} THEN 0
    ELSE CHOOSE i \in Positions(s, c) : \A j \in Positions(s, c) : i <= j

RECURSIVE Split(_, _)
\* str.split(c): the pieces of s between occurrences of c
Split(s, c) ==
    IF Find(s, c) = 0 THEN <<s>>
    ELSE <<SubSeq(s, 1, Find(s, c) - 1)>> \o Split(SubSeq(s, Find(s, c) + 1, Len(s)), c)

IsSpace(c) == c \in {" ", "\t", "\n", "\r"}

RECURSIVE LStrip(_)
LStrip(s) ==
    IF s # "" /\ IsSpace(Char(s, 1)) THEN LStrip(SubSeq(s, 2, Len(s))) ELSE s

RECURSIVE RStrip(_)
RStrip(s) ==
    IF s # "" /\ IsSpace(Char(s, Len(s))) THEN RStrip(SubSeq(s, 1, Len(s) - 1)) ELSE s

\* str.strip()
Strip(s) == LStrip(RStrip(s))

RECURSIVE RStripChar(_, _)
\* str.rstrip(c)
RStripChar(s, c) ==
    IF s # "" /\ Char(s, Len(s)) = c THEN RStripChar(SubSeq(s, 1, Len(s) - 1), c) ELSE s

RECURSIVE ReplaceChar(_, _, _)
\* str.replace(a, b) for single characters
ReplaceChar(s, a, b) ==
    IF s = "" THEN ""
    ELSE (IF Char(s, 1) = a THEN b ELSE Char(s, 1)) \o ReplaceChar(SubSeq(s, 2, Len(s)), a, b)

RECURSIVE Rep(_, _)
\* c * n
Rep(c, n) == IF n = 0 THEN "" ELSE c \o Rep(c, n - 1)

\* Path.name: the last component of a path
PathName(p) == SubSeq(p, RFind(p, "/") + 1, Len(p))

\* the suffix of a file name: its last dot-separated part, with the dot
NameSuffix(name) ==
    IF 1 < RFind(name, ".") /\ RFind(name, ".") < Len(name)
    THEN SubSeq(name, RFind(name, "."), Len(name))
    ELSE ""

\* Path.suffix
PathSuffix(p) == NameSuffix(PathName(p))

(***************************************************************************)
(* A file on disk, as the scanner observes it.                             *)
(*   readable : open() succeeds                                            *)
(*   size     : st_size in bytes                                           *)
(*   eicar    : the content holds the EICAR test string                    *)
(*   sha      : hexdigest of the content                                   *)
(*   header   : the first bytes of the content (byte values)               *)
(*   entropy  : Shannon entropy of the first MiB, in hundredths            *)
(***************************************************************************)
None == "None"

\* filetype_checks.MAGIC, in dictionary order
MAGIC ==
    << [type |-> "pe",  sig |-> <<77, 90>>],
       [type |-> "pdf", sig |-> <<37, 80, 68, 70>>],
       [type |-> "zip", sig |-> <<80, 75, 3, 4>>],
       [type |-> "png", sig |-> <<137, 80, 78, 71, 13, 10, 26, 10>>],
       [type |-> "jpg", sig |-> <<255, 216, 255>>],
       [type |-> "gif", sig |-> <<71, 73, 70, 56>> ] >>

\* filetype_checks.EXT_EXPECTATIONS
EXT_EXPECTATIONS ==
    [e \in {".exe", ".dll", ".scr", ".sys", ".pdf", ".zip", ".jar", ".docx",
            ".xlsx", ".pptx", ".png", ".jpg", ".jpeg", ".gif"} |->
        CASE e \in {".exe", ".dll", ".scr", ".sys"} -> "pe"
          [] e = ".pdf" -> "pdf"
          [] e \in {".zip", ".jar", ".docx", ".xlsx", ".pptx"} -> "zip"
          [] e = ".png" -> "png"
          [] e \in {".jpg", ".jpeg"} -> "jpg"
          [] e = ".gif" -> "gif"]

HeaderSize == 16

\* read_header: the first 16 bytes; ok is FALSE (None) when the file cannot be opened
read_header(f) ==
    IF f.readable
    THEN [ok    |-> TRUE,
          bytes |-> SubSeq(f.header, 1,
                           IF Len(f.header) < HeaderSize THEN Len(f.header) ELSE HeaderSize)]
    ELSE [ok |-> FALSE, bytes |-> <<>>]

\* bytes.startswith
BytesStartWith(h, sig) == Len(sig) <= Len(h) /\ SubSeq(h, 1, Len(sig)) = sig

\* detect_magic_type: the first MAGIC entry the header starts with
detect_magic_type(header) ==
    IF header = <<>> THEN None
    ELSE IF \E i \in 1..Len(MAGIC) : BytesStartWith(header, MAGIC[i].sig)
         THEN MAGIC[CHOOSE i \in 1..Len(MAGIC) :
                      /\ BytesStartWith(header, MAGIC[i].sig)
                      /\ \A j \in 1..(i - 1) : ~BytesStartWith(header, MAGIC[j].sig)].type
         ELSE None

\* expected_type_for_extension
expected_type_for_extension(ext) ==
    IF Lower(ext) \in DOMAIN EXT_EXPECTATIONS THEN EXT_EXPECTATIONS[Lower(ext)] ELSE None

\* the comparison of extension_header_mismatch, given the expected type, the
\* header read and the type detected in it
mismatch_result(expected, header, actual) ==
    IF expected = None THEN <<FALSE, None, None>>
    ELSE IF ~header.ok THEN <<FALSE, expected, None>>
    ELSE IF actual = None THEN <<FALSE, expected, None>>
    ELSE <<actual # expected, expected, actual>>

\* extension_header_mismatch: <<mismatch, expected, actual>>
extension_header_mismatch(path, f) ==
    mismatch_result(expected_type_for_extension(Lower(PathSuffix(path))),
                    read_header(f),
                    detect_magic_type(read_header(f).bytes))

(***************************************************************************)
(* heuristics.py: each rule returns [score, reasons].                      *)
(***************************************************************************)
SUSPICIOUS_EXTENSIONS ==
    {".exe", ".scr", ".js", ".vbs", ".bat", ".cmd", ".ps1", ".dll", ".jar"}

BENIGN_DOC_LIKE ==
    {".pdf", ".doc", ".docx", ".xls", ".xlsx", ".ppt", ".pptx", ".txt", ".rtf"}

SuspiciousExtScore == 12
MasqueradeScore == 25
MultiExtScore == 12
ManyDotsScore == 8
ManyDotsMin == 3
WhitespaceScore == 10
LureScore == 6
MismatchScore == 30
EntropyScore == 18
EntropyThreshold == 720
HeuristicCap == 99

\* the text of the entropy reason: {ent:.2f} of a value held in hundredths
ReasonEntropy(ent) ==
    "High entropy (" \o ToString(ent \div 100) \o "." \o ToString((ent % 100) \div 10)
        \o ToString(ent % 10) \o ") may indicate packing or obfuscation."

\* variant of has_double_extension that asks for one part more
has_double_extension_four_parts(filename) == Len(Split(Lower(filename), ".")) >= 4

\* utils.has_double_extension
has_double_extension(filename) == Len(Split(Lower(filename), ".")) >= 3

\* the lure test of hidden_like_name_score on the lowercase name
is_lure(lower) ==
    /\ \E t \in {"invoice", "urgent", "payment", "security", "update", "scan", "statement"} :
          Contains(lower, t)
    /\ \E e \in {".exe", ".scr", ".js", ".vbs", ".ps1", ".bat"} : Contains(lower, e)

\* the score and reasons of hidden_like_name_score, given its three checks
name_score(dots, ws, lure) ==
    [score   |-> (IF dots THEN ManyDotsScore ELSE 0) + (IF ws THEN WhitespaceScore ELSE 0)
                   + (IF lure THEN LureScore ELSE 0),
     reasons |-> (IF dots THEN <<"Unusually many dots in filename.">> ELSE <<>>)
                   \o (IF ws THEN <<"Filename has leading/trailing whitespace.">> ELSE <<>>)
                   \o (IF lure
                       THEN <<"Filename contains common lure terms combined with a script/executable extension.">>
                       ELSE <<>>)]

\* hidden_like_name_score
hidden_like_name_score(name) ==
    name_score(DotCount(Lower(name)) >= ManyDotsMin, name # Strip(name), is_lure(Lower(name)))

\* exts of double_extension_score: every part after the base name, with a dot
extension_chain(parts) == {"." \o parts[i] : i \in 2..Len(parts)}

\* the doc-like + executable test on the chain of extensions
is_masquerade(exts) ==
    (exts \cap BENIGN_DOC_LIKE # {}) /\ (exts \cap SUSPICIOUS_EXTENSIONS # {})

\* double_extension_score
double_extension_score(filename, ext) ==
    IF has_double_extension(filename)
    THEN IF is_masquerade(extension_chain(Split(Lower(filename), ".")))
         THEN [score |-> MasqueradeScore,
               reasons |-> <<"Possible double-extension masquerading (e.g., document name ending with executable/script).">>]
         ELSE [score |-> MultiExtScore,
               reasons |-> <<"Multiple extensions detected (could be masquerading).">>]
    ELSE [score |-> 0, reasons |-> <<>>]

\* suspicious_extension_score
suspicious_extension_score(ext) ==
    IF ext \in SUSPICIOUS_EXTENSIONS
    THEN [score |-> SuspiciousExtScore, reasons |-> <<"Suspicious or high-risk extension: " \o ext \o ".">>]
    ELSE [score |-> 0, reasons |-> <<>>]

\* the score header_mismatch_score gives a result of extension_header_mismatch
mismatch_score(m) ==
    IF m[1]
    THEN [score |-> MismatchScore,
          reasons |-> <<"Extension/header mismatch: expected " \o m[2] \o ", found " \o m[3] \o ".">>]
    ELSE [score |-> 0, reasons |-> <<>>]

\* header_mismatch_score
header_mismatch_score(path, f) == mismatch_score(extension_header_mismatch(path, f))

\* file_entropy: ok is FALSE (None) when the file cannot be opened
file_entropy(f) ==
    IF f.readable THEN [ok |-> TRUE, val |-> f.entropy] ELSE [ok |-> FALSE, val |-> 0]

\* the score entropy_score gives a result of file_entropy
entropy_rule(ent) ==
    IF ~ent.ok THEN [score |-> 0, reasons |-> <<>>]
    ELSE IF ent.val >= EntropyThreshold
         THEN [score |-> EntropyScore, reasons |-> <<ReasonEntropy(ent.val)>>]
         ELSE [score |-> 0, reasons |-> <<>>]

\* entropy_score
entropy_score(f) == entropy_rule(file_entropy(f))

\* variant of the cap that leaves the sum as it is
CapScore_uncapped(score) == score

\* the cap of evaluate_heuristics
CapScore(score) == IF score > HeuristicCap THEN HeuristicCap ELSE score

\* score += s; reasons += r, for the five rules in their order
SumRules(r1, r2, r3, r4, r5) ==
    [score   |-> r1.score + r2.score + r3.score + r4.score + r5.score,
     reasons |-> r1.reasons \o r2.reasons \o r3.reasons \o r4.reasons \o r5.reasons]

\* the sum of the rule contributions of evaluate_heuristics, before the cap
RawHeuristics(path, f, enable_entropy) ==
    SumRules(suspicious_extension_score(Lower(PathSuffix(path))),
             double_extension_score(PathName(path), Lower(PathSuffix(path))),
             hidden_like_name_score(PathName(path)),
             header_mismatch_score(path, f),
             IF enable_entropy THEN entropy_score(f) ELSE [score |-> 0, reasons |-> <<>>])

\* the result of evaluate_heuristics, given the sum of the rules
capped_result(raw) == [risk_score |-> CapScore(raw.score), reasons |-> raw.reasons]

\* evaluate_heuristics
evaluate_heuristics(path, f, enable_entropy) ==
    capped_result(RawHeuristics(path, f, enable_entropy))

(***************************************************************************)
(* utils.py / hashing.py / signatures.py                                   *)
(***************************************************************************)
TextLikeExtensions ==
    {".txt", ".md", ".log", ".json", ".xml", ".html", ".htm", ".css", ".js", ".vbs",
     ".ps1", ".bat", ".cmd", ".py", ".csv", ".ini", ".yml", ".yaml"}

\* is_text_like_extension
is_text_like_extension(ext) == Lower(ext) \in TextLikeExtensions

\* sha256_file: ok is FALSE (None) when the file cannot be read
sha256_file(f) ==
    IF f.readable THEN [ok |-> TRUE, hex |-> f.sha] ELSE [ok |-> FALSE, hex |-> ""]

HashLen == 64

\* DEFAULT_SIGNATURES["hashes"]["sha256"]
DEFAULT_SIGNATURES == <<Rep("0", HashLen), Rep("1", HashLen), Rep("a", HashLen)>>

\* load_signatures: the document read, after the default was written when the
\* file was absent or could not be parsed
load_signatures(doc) ==
    IF doc.state \in {"absent", "corrupt"}
    THEN [state |-> "ok", sha256 |-> DEFAULT_SIGNATURES]
    ELSE doc

\* variant of extract_sha256_set that keeps the case of the entries
extract_sha256_set_keep_case(sig_obj) ==
    {sig_obj.sha256[i] : i \in {j \in 1..Len(sig_obj.sha256) : Len(sig_obj.sha256[j]) = HashLen}}

\* extract_sha256_set raises: sig_obj.get on a list (AttributeError),
\* hashes.get on a value that is no object (AttributeError), or the for loop
\* over a value that cannot be iterated (TypeError)
extract_sha256_set_raises(sig_obj) ==
    sig_obj.state \in {"list_root", "hashes_not_object", "sha256_not_iterable"}

\* extract_sha256_set: every 64-character entry, lowercased
extract_sha256_set(sig_obj) ==
    {Lower(sig_obj.sha256[i]) : i \in {j \in 1..Len(sig_obj.sha256) : Len(sig_obj.sha256[j]) = HashLen}}

(***************************************************************************)
(* main.py: the classifier                                                 *)
(***************************************************************************)
EicarMaxSize == 5 * 1024 * 1024

UnreadableScore == 10
EicarScore == 90
SignatureScore == 100
FlagThreshold == 25

\* detect_eicar
detect_eicar(path, f) ==
    IF ~is_text_like_extension(Lower(PathSuffix(path))) THEN FALSE
    ELSE IF ~f.readable THEN FALSE
    ELSE IF f.size > EicarMaxSize THEN FALSE
    ELSE f.eicar

\* build_result_entry
build_result_entry(path, sha256, status, risk_score, reasons) ==
    [path |-> path, sha256 |-> sha256, status |-> status,
     risk_score |-> risk_score, reasons |-> reasons]

\* the signature test of scan_one_file
signature_hit(sha, sig_set) == Lower(sha) \in sig_set

\* variant of the threshold test that flags only above the threshold
threshold_verdict_strict(path, sha, h) ==
    IF h.risk_score > FlagThreshold
    THEN build_result_entry(path, sha, "heuristic_flag", h.risk_score, h.reasons)
    ELSE build_result_entry(path, sha, "clean", 0, <<>>)

\* the test of the heuristic score against the threshold in scan_one_file
threshold_verdict(path, sha, h) ==
    IF h.risk_score >= FlagThreshold
    THEN build_result_entry(path, sha, "heuristic_flag", h.risk_score, h.reasons)
    ELSE build_result_entry(path, sha, "clean", 0, <<>>)

\* the heuristic branch of scan_one_file: the verdict once EICAR and the
\* signature set did not match
heuristic_verdict(path, f, sha, heuristics_enabled) ==
    IF heuristics_enabled
    THEN threshold_verdict(path, sha, evaluate_heuristics(path, f, TRUE))
    ELSE build_result_entry(path, sha, "clean", 0, <<>>)

\* variant of scan_one_file that tests the signature set before EICAR
scan_one_file_signature_first(path, f, heuristics_enabled, sig_set) ==
    IF ~sha256_file(f).ok
    THEN build_result_entry(path, "", "heuristic_flag", UnreadableScore,
             <<"Could not read file (permission or access issue).">>)
    ELSE IF signature_hit(sha256_file(f).hex, sig_set)
    THEN build_result_entry(path, sha256_file(f).hex, "signature_match", SignatureScore,
             <<"Offline signature match (educational signature set).">>)
    ELSE IF detect_eicar(path, f)
    THEN build_result_entry(path, sha256_file(f).hex, "eicar_test", EicarScore,
             <<"EICAR test string detected (harmless test signature).">>)
    ELSE heuristic_verdict(path, f, sha256_file(f).hex, heuristics_enabled)

\* scan_one_file
scan_one_file(path, f, heuristics_enabled, sig_set) ==
    IF ~sha256_file(f).ok
    THEN build_result_entry(path, "", "heuristic_flag", UnreadableScore,
             <<"Could not read file (permission or access issue).">>)
    ELSE IF detect_eicar(path, f)
    THEN build_result_entry(path, sha256_file(f).hex, "eicar_test", EicarScore,
             <<"EICAR test string detected (harmless test signature).">>)
    ELSE IF signature_hit(sha256_file(f).hex, sig_set)
    THEN build_result_entry(path, sha256_file(f).hex, "signature_match", SignatureScore,
             <<"Offline signature match (educational signature set).">>)
    ELSE heuristic_verdict(path, f, sha256_file(f).hex, heuristics_enabled)

(***************************************************************************)
(* utils.iter_files_in_dir: the exclusion filter                           *)
(***************************************************************************)
\* any(ch in pat for ch in "*?[]")
HasGlobChar(pat) == \E i \in 1..Len(pat) : Char(pat, i) \in {"*", "?", "[", "]"}

\* norm_patterns: every pattern that is not blank, with / separators, in
\* lowercase, without trailing slashes
norm_pattern(p) == RStripChar(Lower(ReplaceChar(p, "\\", "/")), "/")

norm_each(sq) == [i \in 1..Len(sq) |-> norm_pattern(sq[i])]

norm_patterns(raw) == norm_each(SelectSeq(raw, LAMBDA p : Strip(p) # ""))

\* the call fnmatch(s, pat): utils.py imports the module fnmatch, not the
\* function, so the call raises TypeError ('module' object is not callable)
fnmatch_call(s, pat) == [raised |-> TRUE, value |-> FALSE]

RECURSIVE excluded_by(_, _)
\* the loop of is_excluded over the normalized patterns: "yes", "no", or
\* "raise" when the call of fnmatch raises
excluded_by(s, pats) ==
    IF pats = <<>> THEN "no"
    ELSE LET pat == Head(pats)
         IN  IF pat = "" THEN excluded_by(s, Tail(pats))
             ELSE IF HasGlobChar(pat)
                  THEN IF fnmatch_call(s, pat).raised THEN "raise"
                       ELSE IF fnmatch_call(s, pat).value THEN "yes"
                       ELSE excluded_by(s, Tail(pats))
                  ELSE IF StartsWith(s, pat) THEN "yes"
                       ELSE excluded_by(s, Tail(pats))

\* is_excluded
is_excluded(p, pats) == excluded_by(Lower(p), pats)

Last(sq) == sq[Len(sq)]

\* root_path / d
JoinPath(dir, name) == dir \o "/" \o name

\* root_path / d for each name d
join_each(dir, names) == [i \in 1..Len(names) |-> JoinPath(dir, names[i])]

(***************************************************************************)
(* Paths (pathlib, os.path, zipfile)                                       *)
(***************************************************************************)
RECURSIVE JoinParts(_)
\* "/" + "/".join(parts)
JoinParts(parts) ==
    IF parts = <<>> THEN "" ELSE "/" \o Head(parts) \o JoinParts(Tail(parts))

RECURSIVE NormParts(_, _)
\* the components of a path with "", "." and ".." resolved, as the file
\* system resolves them
NormParts(parts, acc) ==
    IF parts = <<>> THEN acc
    ELSE IF Head(parts) \in {"", "."} THEN NormParts(Tail(parts), acc)
    ELSE IF Head(parts) = ".."
         THEN NormParts(Tail(parts), IF acc = <<>> THEN acc ELSE SubSeq(acc, 1, Len(acc) - 1))
    ELSE NormParts(Tail(parts), Append(acc, Head(parts)))

\* "/" for no components
RootOr(joined) == IF joined = "" THEN "/" ELSE joined

\* the location an absolute path names
Resolve(p) == RootOr(JoinParts(NormParts(Split(p, "/"), <<>>)))

\* Path.parent
PathParent(p) == IF RFind(p, "/") <= 1 THEN "/" ELSE SubSeq(p, 1, RFind(p, "/") - 1)

\* a directory and every directory above it
PrefixDirs(parts) == {"/"} \cup {JoinParts(SubSeq(parts, 1, n)) : n \in 1..Len(parts)}

Ancestors(d) == PrefixDirs(NormParts(Split(d, "/"), <<>>))

\* p is d or lies under d
Under(p, d) == p = d \/ StartsWith(p, d \o "/")

\* temp_dir / member: pathlib keeps an absolute right operand alone
PurePathJoin(dir, member) ==
    IF StartsWith(member, "/") THEN member ELSE dir \o "/" \o member

\* where ZipFile.extract(member, path=temp_dir) writes: zipfile drops empty,
\* "." and ".." components of the member name and joins the rest to temp_dir
ZipExtractTarget(temp_dir, member) ==
    temp_dir \o JoinParts(SelectSeq(Split(member, "/"), LAMBDA x : x \notin {"", ".", ".."}))

(***************************************************************************)
(* main.py: settings, archive verdicts, report                             *)
(***************************************************************************)
\* p.strip() for p in exclude_patterns.split(",")
strip_each(sq) == [i \in 1..Len(sq) |-> Strip(sq[i])]

\* the exclusions read from settings.json (scan_target_dir): a list is taken
\* as it is, a string is split at commas, anything else gives no exclusions
load_exclusions(cfg) ==
    IF cfg.kind = "list" THEN cfg.list
    ELSE IF cfg.kind = "str"
         THEN SelectSeq(strip_each(Split(cfg.str, ",")), LAMBDA x : x # "")
    ELSE <<>>

CorruptArchiveScore == 25
NestedArchiveScore == 50
ExtractFailScore == 10

\* path.suffix.lower() in (".zip", ".jar")
is_archive_path(path) == Lower(PathSuffix(path)) \in {".zip", ".jar"}

\* variant of the nested-archive test that compares the name as it is
is_nested_archive_case_sensitive(member) ==
    EndsWith(member, ".zip") \/ EndsWith(member, ".jar")

\* the nested-archive test on a member name
is_nested_archive(member) ==
    EndsWith(Lower(member), ".zip") \/ EndsWith(Lower(member), ".jar")

\* the directory-entry test on a member name
is_dir_member(member) == member = "" \/ EndsWith(member, "/")

\* f"{path}!{member}"
MemberPath(path, member) == path \o "!" \o member

corrupt_archive_verdict(path) ==
    build_result_entry(path, "", "heuristic_flag", CorruptArchiveScore,
        <<"Invalid or corrupted ZIP/JAR archive.">>)

nested_archive_verdict(path, member) ==
    build_result_entry(MemberPath(path, member), "", "heuristic_flag", NestedArchiveScore,
        <<"Nested archive '" \o member \o "' not extracted (depth limit).">>)

extract_fail_verdict(path, member) ==
    build_result_entry(MemberPath(path, member), "", "heuristic_flag", ExtractFailScore,
        <<"Could not extract '" \o member \o "'.">>)

\* sum(1 for r in results if r.get("status") != "clean")
count_flagged(rs) == Cardinality({i \in 1..Len(rs) : rs[i].status # "clean"})

\* the report of scan_target_file / scan_target_dir (timestamp and duration
\* are wall-clock values and are left out)
build_report(a, mode, n, rs) ==
    [target |-> a.target, mode |-> mode, heuristics_enabled |-> a.heuristics,
     summary |-> [files_scanned |-> n, flagged |-> count_flagged(rs)],
     results |-> rs]

\* the exit code main gives an exception that leaves a scan
exit_code_for(exc) ==
    CASE exc = "PermissionError" -> 3
      [] exc = "FileNotFoundError" -> 2
      [] OTHER -> 1

(***************************************************************************)
(* Inputs: files, archives, directory trees, settings and signature        *)
(* documents the scanner is run on.                                        *)
(***************************************************************************)
NotZip == [state |-> "bad", entries |-> <<>>]

\* first bytes of files: plain text, a PE executable, a PDF, a ZIP archive
Hdr ==
    [none |-> <<104, 101, 108, 108, 111>>,
     pe   |-> <<77, 90, 144, 0, 3, 0, 0, 0, 4, 0, 0, 0, 255, 255, 0, 0, 184>>,
     pdf  |-> <<37, 80, 68, 70, 45, 49, 46, 52>>,
     zip  |-> <<80, 75, 3, 4, 20, 0>>]

\* hex digests of file contents
Sha == [a |-> Rep("a", HashLen), b |-> Rep("b", HashLen), c |-> Rep("c", HashLen)]

MkFile(readable, size, eicar, sha, header, entropy, zip) ==
    [readable |-> readable, size |-> size, eicar |-> eicar, sha |-> sha,
     header |-> header, entropy |-> entropy, zip |-> zip]

\* what opening a path that names no file gives
MissingFile == MkFile(FALSE, 0, FALSE, "", <<>>, 0, NotZip)

UnreadableFile == MkFile(FALSE, 68, FALSE, Sha.c, Hdr.none, 400, NotZip)

CleanText == MkFile(TRUE, 68, FALSE, Sha.c, Hdr.none, 400, NotZip)

EicarSize == 68

\* contents of a single scanned file
Contents ==
    {UnreadableFile} \cup
    {MkFile(TRUE, sz, e, sha, h, ent, NotZip) :
        sz \in {EicarSize, EicarMaxSize, EicarMaxSize + 1}, e \in BOOLEAN,
        sha \in {Sha.a, Sha.b}, h \in {Hdr.none, Hdr.pe, Hdr.pdf}, ent \in {400, 720}}

FileNames ==
    {"notes.txt", "EICAR.TXT", "invoice.pdf.exe", " invoice.v2.pdf.exe", "report.pdf",
     "a.b.c", "run.EXE", "README", "update.js", "a.exe.pdf", "x.y.js"}

Entry(name, f, ok) == [name |-> name, file |-> f, extractOk |-> ok]

\* a valid archive with the given entries
ValidZip(entries) ==
    MkFile(TRUE, 500, FALSE, Sha.c, Hdr.zip, 750, [state |-> "valid", entries |-> entries])

\* the archives scanned:
\*   bundle  a directory entry, a clean file, a nested archive, an entry that
\*           fails to extract, an EICAR file and a masquerading executable
\*   nested  one clean file and one nested .zip
\*   slip    member names that leave the scratch directory
\*   known   an archive whose own digest is one of DEFAULT_SIGNATURES
\*   corrupt no archive at all
\*   locked  an archive file without read permission
\*   gone    an archive file removed after the walker listed it
Archives ==
    [bundle  |-> ValidZip(<< Entry("docs/", MissingFile, TRUE),
                             Entry("docs/clean.txt", CleanText, TRUE),
                             Entry("inner.ZIP", CleanText, TRUE),
                             Entry("broken.bin", CleanText, FALSE),
                             Entry("eicar.txt",
                                   MkFile(TRUE, 68, TRUE, Sha.a, Hdr.none, 400, NotZip), TRUE),
                             Entry("invoice.pdf.exe",
                                   MkFile(TRUE, 300, FALSE, Sha.b, Hdr.pe, 400, NotZip), TRUE) >>),
     nested  |-> ValidZip(<< Entry("clean.txt", CleanText, TRUE),
                             Entry("inner.zip", CleanText, TRUE) >>),
     slip    |-> ValidZip(<< Entry("../up/evil.txt", CleanText, TRUE),
                             Entry("/abs.txt", CleanText, TRUE) >>),
     known   |-> MkFile(TRUE, 500, FALSE, Sha.a, Hdr.zip, 750,
                        [state |-> "valid", entries |-> << Entry("clean.txt", CleanText, TRUE) >>]),
     corrupt |-> MkFile(TRUE, 10, FALSE, Sha.c, Hdr.none, 400, NotZip),
     locked  |-> MkFile(FALSE, 500, FALSE, Sha.c, Hdr.zip, 750,
                        [state |-> "valid", entries |-> <<>>]),
     gone    |-> MkFile(FALSE, 500, FALSE, Sha.c, Hdr.zip, 750,
                        [state |-> "gone", entries |-> <<>>])]

Dir(subdirs, files, listable) == [subdirs |-> subdirs, files |-> files, listable |-> listable]

ScanRoot == "/scan"

\* one clean text file and invoice.pdf.exe with a PE header
TreeInvoice ==
    [dirs  |-> (ScanRoot :> Dir(<<>>, <<"notes.txt", "invoice.pdf.exe">>, TRUE)),
     files |-> ("/scan/notes.txt" :> CleanText) @@
               ("/scan/invoice.pdf.exe" :> MkFile(TRUE, 300, FALSE, Sha.b, Hdr.pe, 400, NotZip))]

\* subdirectories to keep and to skip, an unlistable directory under the
\* skipped one, a dangling link among the files
TreeNested ==
    [dirs  |-> (ScanRoot :> Dir(<<"keep", "skip">>, <<"b.log", "dangling", "skipper.txt">>, TRUE)) @@
               ("/scan/keep" :> Dir(<<>>, <<"a.txt", "A.LOG">>, TRUE)) @@
               ("/scan/skip" :> Dir(<<"deep">>, <<"secret.txt">>, TRUE)) @@
               ("/scan/skip/deep" :> Dir(<<>>, <<"x.log">>, FALSE)),
     files |-> ("/scan/b.log" :> CleanText) @@
               ("/scan/skipper.txt" :> CleanText) @@
               ("/scan/keep/a.txt" :> CleanText) @@
               ("/scan/keep/A.LOG" :> CleanText) @@
               ("/scan/skip/secret.txt" :> UnreadableFile) @@
               ("/scan/skip/deep/x.log" :> CleanText)]

\* archives among plain files: valid, corrupt, and an unreadable plain file
TreeArchives ==
    [dirs  |-> (ScanRoot :> Dir(<<>>, <<"first.txt", "bundle.zip", "corrupt.zip",
                                       "unreadable.txt", "nested.jar", "slip.zip", "known.zip",
                                       "last.txt">>, TRUE)),
     files |-> ("/scan/first.txt" :> CleanText) @@
               ("/scan/bundle.zip" :> Archives.bundle) @@
               ("/scan/corrupt.zip" :> Archives.corrupt) @@
               ("/scan/unreadable.txt" :> UnreadableFile) @@
               ("/scan/nested.jar" :> Archives.nested) @@
               ("/scan/slip.zip" :> Archives.slip) @@
               ("/scan/known.zip" :> Archives.known) @@
               ("/scan/last.txt" :> CleanText)]

\* number of plain files that follow the archives of TreeBlocked
ExtraFiles == 1

LaterNames == [i \in 1..ExtraFiles |-> "later" \o ToString(i) \o ".txt"]

\* an archive that cannot be opened, after a plain file, a valid and a
\* corrupt archive, before further plain files
TreeBlocked(name, arch) ==
    [dirs  |-> (ScanRoot :> Dir(<<>>, <<"first.txt", "bundle.zip", "corrupt.zip", name>>
                                       \o LaterNames, TRUE)),
     files |-> [q \in {JoinPath(ScanRoot, LaterNames[i]) : i \in 1..ExtraFiles} |-> CleanText] @@
               ("/scan/first.txt" :> CleanText) @@
               ("/scan/bundle.zip" :> Archives.bundle) @@
               ("/scan/corrupt.zip" :> Archives.corrupt) @@
               (JoinPath(ScanRoot, name) :> arch)]

Trees ==
    {TreeInvoice, TreeNested, TreeArchives,
     TreeBlocked("locked.JAR", Archives.locked), TreeBlocked("gone.zip", Archives.gone)}

\* a file system that holds one file
SingleFile(path, f) == [dirs |-> <<>>, files |-> (path :> f)]

FileTargets ==
    {[path |-> JoinPath("/t", n), file |-> c] : n \in FileNames, c \in Contents} \cup
    {[path |-> "/t/bundle.zip", file |-> Archives.bundle],
     [path |-> "/t/nested.zip", file |-> Archives.nested],
     [path |-> "/t/known.jar", file |-> Archives.known],
     [path |-> "/t/corrupt.jar", file |-> Archives.corrupt],
     [path |-> "/t/locked.zip", file |-> Archives.locked]}

NoSettings == [kind |-> "absent", list |-> <<>>, str |-> ""]

SettingsDocs ==
    {NoSettings,
     [kind |-> "corrupt", list |-> <<>>, str |-> ""],
     [kind |-> "list", list |-> <<"/scan/skip">>, str |-> ""],
     [kind |-> "list", list |-> <<"\\SCAN\\Skip\\", "  ">>, str |-> ""],
     [kind |-> "list", list |-> <<"*.log">>, str |-> ""],
     [kind |-> "list", list |-> <<"/scan/keep/a.txt", "/scan/sk?p">>, str |-> ""],
     [kind |-> "str", list |-> <<>>, str |-> "/scan/skip , /scan/b"]}

SigDocs ==
    {[state |-> "absent", sha256 |-> <<>>],
     [state |-> "corrupt", sha256 |-> <<>>],
     [state |-> "ok", sha256 |-> <<>>],
     [state |-> "ok", sha256 |-> <<Rep("B", HashLen), Rep("a", HashLen - 1)>>],
     \* {"hashes": {"sha256": "ab"}}: the loop runs over the characters
     [state |-> "ok", sha256 |-> <<"a", "b">>],
     \* [] as the root; {"hashes": []}; {"hashes": {"sha256": 7}}
     [state |-> "list_root", sha256 |-> <<>>],
     [state |-> "hashes_not_object", sha256 |-> <<>>],
     [state |-> "sha256_not_iterable", sha256 |-> <<>>]}

DataDir == "/app/data"

(***************************************************************************)
(* State                                                                   *)
(***************************************************************************)
VARIABLES
    args,              \* the command line: cmd, target, heuristics, recursive
    fs,                \* the scanned file system: dirs, files
    settings,          \* settings.json
    sigFile,           \* signatures.json
    pc,                \* where the invocation is
    sig_set,           \* the signature set of this scan
    exclude_patterns,  \* norm_patterns of the walker
    walk,              \* the iter_files_in_dir generator
    arc,               \* the frame of scan_archive
    tmp,               \* directories and files the archive expander created
    tmpCount,          \* number of mkdtemp calls
    results,           \* results of the scan
    files_scanned,     \* files_scanned of the scan
    history,           \* the history store
    exitCode,          \* the exit code of the process, -1 while it runs
    listed,            \* the directories the walker listed
    yielded,           \* the paths the walker yielded
    calls,             \* the calls of scan_one_file: path, file, verdict
    scratchDirs,       \* every scratch directory mkdtemp returned
    store,             \* the history files: scan_history.json, scan_history.db
    writers            \* the invocations inside append_history: pc, data, record

vars == <<args, fs, settings, sigFile, pc, sig_set, exclude_patterns, walk, arc, tmp,
          tmpCount, results, files_scanned, history, exitCode, listed, yielded, calls,
          scratchDirs, store, writers>>

NoWalk == [alive |-> FALSE, stack |-> <<>>, root |-> "", files |-> <<>>]

NoArc == [path |-> "", temp_dir |-> "", members |-> <<>>, results |-> <<>>,
          exc |-> None, ret |-> ""]

InitRest ==
    /\ pc = "main"
    /\ sig_set = {}
    /\ exclude_patterns = <<>>
    /\ walk = NoWalk
    /\ arc = NoArc
    /\ tmp = [dirs |-> {}, files |-> <<>>]
    /\ tmpCount = 0
    /\ results = <<>>
    /\ files_scanned = 0
    /\ history = <<>>
    /\ exitCode = -1
    /\ listed = {}
    /\ yielded = <<>>
    /\ calls = <<>>
    /\ scratchDirs = {}

\* scan-file on a file, or on a path that names no file
InitFile ==
    \E t \in FileTargets, h \in BOOLEAN :
        /\ args = [cmd |-> "scan-file", target |-> t.path, heuristics |-> h, recursive |-> TRUE]
        /\ fs \in {SingleFile(t.path, t.file)} \cup
                   (IF t.file = UnreadableFile THEN {[dirs |-> <<>>, files |-> <<>>]} ELSE {})
        /\ settings = NoSettings

\* scan-dir on a directory tree, or on a path that names no directory
InitDir ==
    \E tree \in Trees, h \in BOOLEAN, r \in BOOLEAN, st \in SettingsDocs :
        /\ args = [cmd |-> "scan-dir",
                   target |-> IF tree = TreeInvoice /\ st.kind = "corrupt" THEN "/nowhere" ELSE ScanRoot,
                   heuristics |-> h, recursive |-> r]
        /\ fs = tree
        /\ settings = st

\* the history files as a fresh installation has them: none yet
NoStore == [json |-> [state |-> "absent", reports |-> <<>>],
            db   |-> [state |-> "absent", rows |-> <<>>]]

Init ==
    /\ InitFile \/ InitDir
    /\ sigFile \in SigDocs
    /\ InitRest
    /\ store = NoStore
    /\ writers = <<>>

(***************************************************************************)
(* Actions                                                                 *)
(***************************************************************************)
safe_is_file(p) == p \in DOMAIN fs.files

safe_is_dir(p) == p \in DOMAIN fs.dirs

\* the file an open() of path reaches: one the expander extracted, one of the
\* scanned file system, or none
FileIn(extracted, q) ==
    IF q \in DOMAIN extracted THEN extracted[q]
    ELSE IF q \in DOMAIN fs.files THEN fs.files[q]
    ELSE MissingFile

FileAt(path) == FileIn(tmp.files, Resolve(path))

\* main: the target is not a file (scan-file) or not a directory (scan-dir)
InvalidTarget ==
    /\ pc = "main"
    /\ \/ args.cmd = "scan-file" /\ ~safe_is_file(args.target)
       \/ args.cmd = "scan-dir" /\ ~safe_is_dir(args.target)
    /\ pc' = "failed"
    /\ exitCode' = 2
    /\ UNCHANGED <<args, fs, settings, sigFile, sig_set, exclude_patterns, walk, arc, tmp,
                   tmpCount, results, files_scanned, history, listed, yielded, calls,
                   scratchDirs>>
    /\ UNCHANGED <<store, writers>>

\* scan_target_file up to the branch on the suffix
ScanFileStart ==
    /\ pc = "main"
    /\ args.cmd = "scan-file"
    /\ safe_is_file(args.target)
    /\ ~extract_sha256_set_raises(load_signatures(sigFile))
    /\ sigFile' = load_signatures(sigFile)
    /\ sig_set' = extract_sha256_set(load_signatures(sigFile))
    /\ pc' = "file"
    /\ UNCHANGED <<args, fs, settings, exclude_patterns, walk, arc, tmp, tmpCount, results,
                   files_scanned, history, exitCode, listed, yielded, calls, scratchDirs>>
    /\ UNCHANGED <<store, writers>>

\* scan_target_file / scan_target_dir: extract_sha256_set raises; main's
\* handler for unexpected exceptions prints the error and exits with 1
SignatureLoadRaise ==
    /\ pc = "main"
    /\ \/ args.cmd = "scan-file" /\ safe_is_file(args.target)
       \/ args.cmd = "scan-dir" /\ safe_is_dir(args.target)
    /\ extract_sha256_set_raises(load_signatures(sigFile))
    /\ sigFile' = load_signatures(sigFile)
    /\ exitCode' = exit_code_for("AttributeError")
    /\ pc' = "failed"
    /\ UNCHANGED <<args, fs, settings, sig_set, exclude_patterns, walk, arc, tmp, tmpCount,
                   results, files_scanned, history, listed, yielded, calls, scratchDirs>>
    /\ UNCHANGED <<store, writers>>

\* scan_target_file: the target is no archive
FilePlain ==
    /\ pc = "file"
    /\ ~is_archive_path(args.target)
    /\ results' = Append(results, scan_one_file(args.target, FileAt(args.target),
                                                args.heuristics, sig_set))
    /\ calls' = Append(calls, [path |-> args.target, file |-> FileAt(args.target),
                               res |-> Last(results')])
    /\ files_scanned' = 1
    /\ pc' = "report"
    /\ UNCHANGED <<args, fs, settings, sigFile, sig_set, exclude_patterns, walk, arc, tmp,
                   tmpCount, history, exitCode, listed, yielded, scratchDirs>>
    /\ UNCHANGED <<store, writers>>

\* scan_target_file: the target is an archive, scan_archive is called
FileArchive ==
    /\ pc = "file"
    /\ is_archive_path(args.target)
    /\ arc' = [NoArc EXCEPT !.path = args.target, !.ret = "file"]
    /\ pc' = "archive_open"
    /\ UNCHANGED <<args, fs, settings, sigFile, sig_set, exclude_patterns, walk, tmp, tmpCount,
                   results, files_scanned, history, exitCode, listed, yielded, calls,
                   scratchDirs>>
    /\ UNCHANGED <<store, writers>>

\* scan_target_dir up to the loop over the walker
ScanDirStart ==
    /\ pc = "main"
    /\ args.cmd = "scan-dir"
    /\ safe_is_dir(args.target)
    /\ ~extract_sha256_set_raises(load_signatures(sigFile))
    /\ exclude_patterns' = norm_patterns(load_exclusions(settings))
    /\ sigFile' = load_signatures(sigFile)
    /\ sig_set' = extract_sha256_set(load_signatures(sigFile))
    /\ walk' = [alive |-> TRUE, stack |-> <<args.target>>, root |-> "", files |-> <<>>]
    /\ pc' = "walk"
    /\ UNCHANGED <<args, fs, settings, arc, tmp, tmpCount, results, files_scanned, history,
                   exitCode, listed, yielded, calls, scratchDirs>>
    /\ UNCHANGED <<store, writers>>

\* variant of the pruning that keeps every subdirectory
kept_subdirs_unpruned(d) == join_each(d, fs.dirs[d].subdirs)

\* the subdirectories of d the pruning keeps, as paths
kept_subdirs(d) ==
    join_each(d, SelectSeq(fs.dirs[d].subdirs,
                     LAMBDA n : is_excluded(JoinPath(d, n), exclude_patterns) = "no"))

\* the pruning raises: is_excluded raises on a subdirectory of d
prune_raises(d) ==
    \E i \in 1..Len(fs.dirs[d].subdirs) :
        is_excluded(JoinPath(d, fs.dirs[d].subdirs[i]), exclude_patterns) = "raise"

\* recursive walk: os.walk lists the next directory, the walker prunes its
\* subdirectories; a directory that cannot be listed is skipped by os.walk
WalkEnterDir ==
    /\ pc = "walk"
    /\ args.recursive
    /\ walk.alive /\ walk.files = <<>> /\ walk.stack # <<>>
    /\ LET d == Head(walk.stack)
       IN  /\ listed' = listed \cup {d}
           /\ walk' = IF ~fs.dirs[d].listable
                      THEN [walk EXCEPT !.stack = Tail(walk.stack)]
                      ELSE IF prune_raises(d)
                      THEN [walk EXCEPT !.alive = FALSE]
                      ELSE [walk EXCEPT !.stack = kept_subdirs(d) \o Tail(walk.stack),
                                        !.root = d,
                                        !.files = fs.dirs[d].files]
    /\ UNCHANGED <<args, fs, settings, sigFile, pc, sig_set, exclude_patterns, arc, tmp,
                   tmpCount, results, files_scanned, history, exitCode, yielded, calls,
                   scratchDirs>>
    /\ UNCHANGED <<store, writers>>

\* non-recursive walk: directory.iterdir() lists the children of the root
WalkIterDir ==
    /\ pc = "walk"
    /\ ~args.recursive
    /\ walk.alive /\ walk.files = <<>> /\ walk.stack # <<>>
    /\ LET d == Head(walk.stack)
       IN  /\ listed' = listed \cup {d}
           /\ walk' = IF ~fs.dirs[d].listable
                      THEN [walk EXCEPT !.alive = FALSE]
                      ELSE [walk EXCEPT !.stack = <<>>,
                                        !.root = d,
                                        !.files = fs.dirs[d].subdirs \o fs.dirs[d].files]
    /\ UNCHANGED <<args, fs, settings, sigFile, pc, sig_set, exclude_patterns, arc, tmp,
                   tmpCount, results, files_scanned, history, exitCode, yielded, calls,
                   scratchDirs>>
    /\ UNCHANGED <<store, writers>>

\* the path the walker looks at next
NextPath == JoinPath(walk.root, Head(walk.files))

WalkHasFile == pc = "walk" /\ walk.alive /\ walk.files # <<>>

\* the walker passes over a path that is no file or is excluded
WalkSkip ==
    /\ WalkHasFile
    /\ \/ ~safe_is_file(NextPath)
       \/ safe_is_file(NextPath) /\ is_excluded(NextPath, exclude_patterns) = "yes"
    /\ walk' = [walk EXCEPT !.files = Tail(walk.files)]
    /\ UNCHANGED <<args, fs, settings, sigFile, pc, sig_set, exclude_patterns, arc, tmp,
                   tmpCount, results, files_scanned, history, exitCode, listed, yielded, calls,
                   scratchDirs>>
    /\ UNCHANGED <<store, writers>>

\* is_excluded raises on a file: the walker catches it and returns
WalkRaise ==
    /\ WalkHasFile
    /\ safe_is_file(NextPath)
    /\ is_excluded(NextPath, exclude_patterns) = "raise"
    /\ walk' = [walk EXCEPT !.alive = FALSE]
    /\ UNCHANGED <<args, fs, settings, sigFile, pc, sig_set, exclude_patterns, arc, tmp,
                   tmpCount, results, files_scanned, history, exitCode, listed, yielded, calls,
                   scratchDirs>>
    /\ UNCHANGED <<store, writers>>

WalkYields ==
    /\ WalkHasFile
    /\ safe_is_file(NextPath)
    /\ is_excluded(NextPath, exclude_patterns) = "no"

\* the walker yields a plain file and scan_target_dir classifies it
YieldPlain ==
    /\ WalkYields
    /\ ~is_archive_path(NextPath)
    /\ walk' = [walk EXCEPT !.files = Tail(walk.files)]
    /\ yielded' = Append(yielded, NextPath)
    /\ results' = Append(results, scan_one_file(NextPath, FileAt(NextPath),
                                                args.heuristics, sig_set))
    /\ calls' = Append(calls, [path |-> NextPath, file |-> FileAt(NextPath),
                               res |-> Last(results')])
    /\ files_scanned' = files_scanned + 1
    /\ UNCHANGED <<args, fs, settings, sigFile, pc, sig_set, exclude_patterns, arc, tmp,
                   tmpCount, history, exitCode, listed, scratchDirs>>
    /\ UNCHANGED <<store, writers>>

\* the walker yields an archive and scan_target_dir calls scan_archive
YieldArchive ==
    /\ WalkYields
    /\ is_archive_path(NextPath)
    /\ walk' = [walk EXCEPT !.files = Tail(walk.files)]
    /\ yielded' = Append(yielded, NextPath)
    /\ arc' = [NoArc EXCEPT !.path = NextPath, !.ret = "walk"]
    /\ pc' = "archive_open"
    /\ UNCHANGED <<args, fs, settings, sigFile, sig_set, exclude_patterns, tmp, tmpCount,
                   results, files_scanned, history, exitCode, listed, calls, scratchDirs>>
    /\ UNCHANGED <<store, writers>>

\* the walker is exhausted or has returned: the loop of scan_target_dir ends
WalkEnd ==
    /\ pc = "walk"
    /\ ~walk.alive \/ (walk.files = <<>> /\ walk.stack = <<>>)
    /\ pc' = "report"
    /\ UNCHANGED <<args, fs, settings, sigFile, sig_set, exclude_patterns, walk, arc, tmp,
                   tmpCount, results, files_scanned, history, exitCode, listed, yielded, calls,
                   scratchDirs>>
    /\ UNCHANGED <<store, writers>>

\* zipfile.ZipFile(path, "r"): "ok" or the exception it raises
zip_open(f) ==
    IF f.zip.state = "gone" THEN "FileNotFoundError"
    ELSE IF ~f.readable THEN "PermissionError"
    ELSE IF f.zip.state = "valid" THEN "ok"
    ELSE "BadZipFile"

\* tempfile.mkdtemp(prefix="unpack_", dir=base_dir): a fresh directory
mkdtemp(n) == DataDir \o "/unpack_" \o ToString(n)

\* the directories that exist
ExistingDirs ==
    tmp.dirs \cup Ancestors(DataDir) \cup UNION {Ancestors(d) : d \in DOMAIN fs.dirs}

\* Path.mkdir(parents=True, exist_ok=True) / os.makedirs: the directories
\* that come to exist
mkdir_parents(d) == Ancestors(Resolve(d)) \ ExistingDirs

\* variant of the cleanup that removes the directory only when it is empty
rmtree_only_empty(t, temp_dir) ==
    IF \E x \in (t.dirs \cup DOMAIN t.files) : x # temp_dir /\ Under(x, temp_dir)
    THEN t
    ELSE [dirs |-> t.dirs \ {temp_dir}, files |-> t.files]

\* shutil.rmtree(temp_dir): what is left of the created directories and files
rmtree(t, temp_dir) ==
    [dirs  |-> {d \in t.dirs : ~Under(d, temp_dir)},
     files |-> [q \in {x \in DOMAIN t.files : ~Under(x, temp_dir)} |-> t.files[q]]]

\* scan_archive: the scratch directory is made and the archive is opened
ArchiveOpen ==
    /\ pc = "archive_open"
    /\ tmp' = [tmp EXCEPT !.dirs = @ \cup {mkdtemp(tmpCount)}]
    /\ scratchDirs' = scratchDirs \cup {mkdtemp(tmpCount)}
    /\ \E opened \in {zip_open(FileAt(arc.path))} :
           /\ arc' = [arc EXCEPT
                        !.temp_dir = mkdtemp(tmpCount),
                        !.members = IF opened = "ok" THEN FileAt(arc.path).zip.entries ELSE <<>>,
                        !.results = IF opened = "BadZipFile"
                                    THEN <<corrupt_archive_verdict(arc.path)>> ELSE <<>>,
                        !.exc = IF opened \in {"ok", "BadZipFile"} THEN None ELSE opened]
           /\ pc' = IF opened = "ok" THEN "archive_loop" ELSE "archive_finally"
    /\ tmpCount' = tmpCount + 1
    /\ UNCHANGED <<args, fs, settings, sigFile, sig_set, exclude_patterns, walk, results,
                   files_scanned, history, exitCode, listed, yielded, calls>>
    /\ UNCHANGED <<store, writers>>

InLoop == pc = "archive_loop" /\ arc.members # <<>>

Member == Head(arc.members)

\* a directory entry is skipped
ArchiveSkipDir ==
    /\ InLoop
    /\ is_dir_member(Member.name)
    /\ arc' = [arc EXCEPT !.members = Tail(arc.members)]
    /\ UNCHANGED <<args, fs, settings, sigFile, pc, sig_set, exclude_patterns, walk, tmp,
                   tmpCount, results, files_scanned, history, exitCode, listed, yielded, calls,
                   scratchDirs>>
    /\ UNCHANGED <<store, writers>>

\* a nested archive is flagged and not extracted
ArchiveNested ==
    /\ InLoop
    /\ ~is_dir_member(Member.name)
    /\ is_nested_archive(Member.name)
    /\ arc' = [arc EXCEPT !.members = Tail(arc.members),
                          !.results = Append(arc.results,
                                             nested_archive_verdict(arc.path, Member.name))]
    /\ UNCHANGED <<args, fs, settings, sigFile, pc, sig_set, exclude_patterns, walk, tmp,
                   tmpCount, results, files_scanned, history, exitCode, listed, yielded, calls,
                   scratchDirs>>
    /\ UNCHANGED <<store, writers>>

ExtractsMember == InLoop /\ ~is_dir_member(Member.name) /\ ~is_nested_archive(Member.name)

\* extracted_path = temp_dir / member
extracted_path == PurePathJoin(arc.temp_dir, Member.name)

\* where zf.extract(member, path=temp_dir) writes the entry
extract_target == ZipExtractTarget(arc.temp_dir, Member.name)

\* the extraction of an entry raises: the directories are made, the entry
\* gets a verdict and the loop goes on
ArchiveExtractFail ==
    /\ ExtractsMember
    /\ ~Member.extractOk
    /\ tmp' = [tmp EXCEPT !.dirs = @ \cup mkdir_parents(PathParent(extracted_path))]
    /\ arc' = [arc EXCEPT !.members = Tail(arc.members),
                          !.results = Append(arc.results,
                                             extract_fail_verdict(arc.path, Member.name))]
    /\ UNCHANGED <<args, fs, settings, sigFile, pc, sig_set, exclude_patterns, walk, tmpCount,
                   results, files_scanned, history, exitCode, listed, yielded, calls,
                   scratchDirs>>
    /\ UNCHANGED <<store, writers>>

\* an entry is extracted and the file at extracted_path is classified
ArchiveExtractScan ==
    /\ ExtractsMember
    /\ Member.extractOk
    /\ tmp' = [dirs  |-> tmp.dirs \cup mkdir_parents(PathParent(extracted_path))
                                   \cup mkdir_parents(PathParent(extract_target)),
               files |-> (extract_target :> Member.file) @@ tmp.files]
    /\ arc' = [arc EXCEPT
                 !.members = Tail(arc.members),
                 !.results = Append(arc.results,
                     [scan_one_file(extracted_path, FileIn(tmp'.files, Resolve(extracted_path)),
                                    args.heuristics, sig_set)
                        EXCEPT !.path = MemberPath(arc.path, Member.name)])]
    /\ calls' = Append(calls, [path |-> extracted_path,
                               file |-> FileIn(tmp'.files, Resolve(extracted_path)),
                               res  |-> Last(arc'.results)])
    /\ UNCHANGED <<args, fs, settings, sigFile, pc, sig_set, exclude_patterns, walk, tmpCount,
                   results, files_scanned, history, exitCode, listed, yielded, scratchDirs>>
    /\ UNCHANGED <<store, writers>>

\* the loop over the members ends
ArchiveLoopEnd ==
    /\ pc = "archive_loop"
    /\ arc.members = <<>>
    /\ pc' = "archive_finally"
    /\ UNCHANGED <<args, fs, settings, sigFile, sig_set, exclude_patterns, walk, arc, tmp,
                   tmpCount, results, files_scanned, history, exitCode, listed, yielded, calls,
                   scratchDirs>>
    /\ UNCHANGED <<store, writers>>

\* where the caller of scan_archive goes on
after_archive(ret) == IF ret = "walk" THEN "walk" ELSE "report"

\* the finally clause, then scan_archive returns its results to its caller,
\* which adds them to the results and counts the archive and its verdicts
ArchiveReturn ==
    /\ pc = "archive_finally"
    /\ arc.exc = None
    /\ tmp' = rmtree(tmp, arc.temp_dir)
    /\ results' = results \o arc.results
    /\ files_scanned' = files_scanned + 1 + Len(arc.results)
    /\ pc' = after_archive(arc.ret)
    /\ arc' = NoArc
    /\ UNCHANGED <<args, fs, settings, sigFile, sig_set, exclude_patterns, walk, tmpCount,
                   history, exitCode, listed, yielded, calls, scratchDirs>>
    /\ UNCHANGED <<store, writers>>

\* the finally clause, then the exception of ZipFile leaves scan_archive and
\* the scan, and main turns it into an exit code
ArchiveRaise ==
    /\ pc = "archive_finally"
    /\ arc.exc # None
    /\ tmp' = rmtree(tmp, arc.temp_dir)
    /\ exitCode' = exit_code_for(arc.exc)
    /\ pc' = "failed"
    /\ arc' = NoArc
    /\ UNCHANGED <<args, fs, settings, sigFile, sig_set, exclude_patterns, walk, tmpCount,
                   results, files_scanned, history, listed, yielded, calls, scratchDirs>>
    /\ UNCHANGED <<store, writers>>

\* variant of persist_history that writes the report twice
persist_history_twice(h, report) == Append(Append(h, report), report)

\* persist_history: the report is appended to the history store
persist_history(h, report) == Append(h, report)

\* the report is built and persisted, main prints it and returns
Report ==
    /\ pc = "report"
    /\ history' = persist_history(history,
                      build_report(args, IF args.cmd = "scan-file" THEN "file" ELSE "directory",
                                   files_scanned, results))
    /\ exitCode' = 0
    /\ pc' = "done"
    /\ UNCHANGED <<args, fs, settings, sigFile, sig_set, exclude_patterns, walk, arc, tmp,
                   tmpCount, results, files_scanned, listed, yielded, calls, scratchDirs>>
    /\ UNCHANGED <<store, writers>>

Next ==
    \/ InvalidTarget
    \/ SignatureLoadRaise
    \/ ScanFileStart
    \/ FilePlain
    \/ FileArchive
    \/ ScanDirStart
    \/ WalkEnterDir
    \/ WalkIterDir
    \/ WalkSkip
    \/ WalkRaise
    \/ YieldPlain
    \/ YieldArchive
    \/ WalkEnd
    \/ ArchiveOpen
    \/ ArchiveSkipDir
    \/ ArchiveNested
    \/ ArchiveExtractFail
    \/ ArchiveExtractScan
    \/ ArchiveLoopEnd
    \/ ArchiveReturn
    \/ ArchiveRaise
    \/ Report

Spec == Init /\ [][Next]_vars

(***************************************************************************)
(* history_json.py / history_sqlite.py: invocations that have finished     *)
(* their scans append their reports to one history store at the same time. *)
(* Here history is the record of what an append-only store is to hold: the *)
(* reports it held at the start and every report whose append returned.    *)
(***************************************************************************)
\* number of invocations that append at the same time
Writers == 2

\* the report invocation w appends
ReportOf(w) ==
    build_report([target |-> "/t/file" \o ToString(w), heuristics |-> TRUE], "file", 1, <<>>)

\* the history files the invocations find: scan_history.json absent, not
\* parseable, an empty list, or a list with one earlier report; the scans
\* table of scan_history.db absent, empty, or with one earlier report
Stores ==
    {[json |-> j, db |-> d] :
        j \in {[state |-> "absent", reports |-> <<>>],
               [state |-> "corrupt", reports |-> <<>>],
               [state |-> "ok", reports |-> <<>>],
               [state |-> "ok", reports |-> <<ReportOf(0)>>]},
        d \in {[state |-> "absent", rows |-> <<>>],
               [state |-> "ok", rows |-> <<>>],
               [state |-> "ok", rows |-> <<ReportOf(0)>>]}}

\* the reports a backend's read_history returns
stored_reports(st, storage) == IF storage = "sqlite" THEN st.db.rows ELSE st.json.reports

\* every invocation is about to call persist_history with the same storage
InitHistory ==
    /\ args = [cmd |-> "scan-file", target |-> "/t/notes.txt", heuristics |-> TRUE,
               recursive |-> TRUE]
    /\ fs = SingleFile("/t/notes.txt", CleanText)
    /\ settings = NoSettings
    /\ sigFile = [state |-> "absent", sha256 |-> <<>>]
    /\ pc = "report" /\ exitCode = -1
    /\ sig_set = {} /\ exclude_patterns = <<>> /\ walk = NoWalk /\ arc = NoArc
    /\ tmp = [dirs |-> {}, files |-> <<>>] /\ tmpCount = 0
    /\ results = <<>> /\ files_scanned = 0
    /\ listed = {} /\ yielded = <<>> /\ calls = <<>> /\ scratchDirs = {}
    /\ store \in Stores
    /\ \E storage \in {"json", "sqlite"} :
          /\ writers = [w \in 1..Writers |-> [storage |-> storage, pc |-> "start", data |-> <<>>]]
          /\ history = stored_reports(store, storage)

\* what the steps of append_history leave alone
scanVars == <<args, fs, settings, sigFile, pc, sig_set, exclude_patterns, walk, arc, tmp,
              tmpCount, results, files_scanned, exitCode, listed, yielded, calls, scratchDirs>>

\* invocation w is at position at in the JSON backend
AtJson(w, at) == writers[w].storage = "json" /\ writers[w].pc = at

\* ensure_history_file, first half: p.exists(), in append_history and again
\* in read_history
HistExists(w) ==
    /\ AtJson(w, "start") \/ AtJson(w, "read_start")
    /\ writers' = [writers EXCEPT ![w].pc =
                      IF store.json.state = "absent"
                      THEN (IF writers[w].pc = "start" THEN "create" ELSE "read_create")
                      ELSE (IF writers[w].pc = "start" THEN "read_start" ELSE "read")]
    /\ UNCHANGED <<store, history>>
    /\ UNCHANGED scanVars

\* ensure_history_file, second half: p.write_text("[]")
HistCreate(w) ==
    /\ AtJson(w, "create") \/ AtJson(w, "read_create")
    /\ store' = [store EXCEPT !.json = [state |-> "ok", reports |-> <<>>]]
    /\ writers' = [writers EXCEPT ![w].pc =
                      IF writers[w].pc = "create" THEN "read_start" ELSE "read"]
    /\ UNCHANGED history
    /\ UNCHANGED scanVars

\* read_history: json.loads(p.read_text()) gives the list, or raises
HistRead(w) ==
    /\ AtJson(w, "read")
    /\ writers' = [writers EXCEPT
                      ![w].data = IF store.json.state = "ok" THEN store.json.reports ELSE <<>>,
                      ![w].pc = IF store.json.state = "ok" THEN "write" ELSE "reset"]
    /\ UNCHANGED <<store, history>>
    /\ UNCHANGED scanVars

\* read_history, except branch: p.write_text("[]"); return []
HistReset(w) ==
    /\ AtJson(w, "reset")
    /\ store' = [store EXCEPT !.json = [state |-> "ok", reports |-> <<>>]]
    /\ writers' = [writers EXCEPT ![w].pc = "write"]
    /\ UNCHANGED history
    /\ UNCHANGED scanVars

\* data.append(record); history_path().write_text(json.dumps(data))
HistWrite(w) ==
    /\ AtJson(w, "write")
    /\ store' = [store EXCEPT !.json = [state |-> "ok",
                                         reports |-> Append(writers[w].data, ReportOf(w))]]
    /\ writers' = [writers EXCEPT ![w].pc = "done"]
    /\ history' = Append(history, ReportOf(w))
    /\ UNCHANGED scanVars

\* init_db: CREATE TABLE IF NOT EXISTS scans, committed
DbInit(w) ==
    /\ writers[w].storage = "sqlite" /\ writers[w].pc = "start"
    /\ store' = [store EXCEPT !.db.state = "ok"]
    /\ writers' = [writers EXCEPT ![w].pc = "insert"]
    /\ UNCHANGED history
    /\ UNCHANGED scanVars

\* append_history of history_sqlite: INSERT INTO scans, committed
DbInsert(w) ==
    /\ writers[w].storage = "sqlite" /\ writers[w].pc = "insert"
    /\ store' = [store EXCEPT !.db.rows = Append(store.db.rows, ReportOf(w))]
    /\ writers' = [writers EXCEPT ![w].pc = "done"]
    /\ history' = Append(history, ReportOf(w))
    /\ UNCHANGED scanVars

NextHistory ==
    \E w \in 1..Writers :
        \/ HistExists(w)
        \/ HistCreate(w)
        \/ HistRead(w)
        \/ HistReset(w)
        \/ HistWrite(w)
        \/ DbInit(w)
        \/ DbInsert(w)

SpecHistory == InitHistory /\ [][NextHistory]_vars

(***************************************************************************)
(* Properties                                                              *)
(***************************************************************************)
SetOf(sq) == {sq[i] : i \in 1..Len(sq)}

\* the name of an archive entry is that of a directory
DirName(n) == EndsWith(n, "/")

\* the file of a classifier call meets the conditions of the EICAR check
TriggersEicar(c) ==
    /\ c.file.readable
    /\ Lower(PathSuffix(c.path)) \in TextLikeExtensions
    /\ c.file.size <= 5 * 1024 * 1024
    /\ c.file.eicar

\* the signature document of this scan lists the digest, in any letter case
InSignatureDoc(sha) ==
    \E i \in 1..Len(sigFile.sha256) :
        Len(sigFile.sha256[i]) = 64 /\ Lower(sigFile.sha256[i]) = Lower(sha)

\* C1: a readable text-like file of at most 5 MiB that holds the EICAR string
\* gets the verdict eicar_test with score 90, whatever the signature set
\* holds and whether heuristics are enabled or not.
C1_EicarFirst ==
    \A i \in 1..Len(calls) :
        TriggersEicar(calls[i]) =>
            calls[i].res.status = "eicar_test" /\ calls[i].res.risk_score = 90

C1_Witness ==
    \E i \in 1..Len(calls) :
        /\ TriggersEicar(calls[i])
        /\ InSignatureDoc(calls[i].file.sha)
        /\ ~args.heuristics
        /\ calls[i].res.status = "eicar_test"

\* C2: a readable file that does not trigger the EICAR check and whose digest
\* is in the signature set, compared case-insensitively, gets the verdict
\* signature_match with score 100, whatever the heuristics would score.
C2_SignatureMatch ==
    \A i \in 1..Len(calls) :
        (calls[i].file.readable /\ ~TriggersEicar(calls[i])
            /\ InSignatureDoc(calls[i].file.sha)) =>
            calls[i].res.status = "signature_match" /\ calls[i].res.risk_score = 100

C2_Witness ==
    \E i \in 1..Len(calls) :
        /\ calls[i].file.readable /\ ~TriggersEicar(calls[i])
        /\ InSignatureDoc(calls[i].file.sha)
        /\ calls[i].file.sha \notin SetOf(sigFile.sha256)
        /\ args.heuristics
        /\ RawHeuristics(calls[i].path, calls[i].file, TRUE).score >= 25
        /\ calls[i].res.status = "signature_match"

\* the verdict res is the one the heuristic result h calls for
FollowsHeuristics(res, h) ==
    IF args.heuristics /\ h.risk_score >= 25
    THEN res.status = "heuristic_flag" /\ res.risk_score = h.risk_score
            /\ res.reasons = h.reasons
    ELSE res.status = "clean" /\ res.risk_score = 0 /\ res.reasons = <<>>

\* C3: a readable file that matches neither the EICAR check nor the signature
\* set is heuristic_flag, with the combined heuristic score and the heuristic
\* reasons, exactly when heuristics are enabled and that score is at least 25;
\* otherwise it is clean with score 0 and no reasons.
C3_HeuristicOrClean ==
    \A i \in 1..Len(calls) :
        (calls[i].file.readable /\ ~TriggersEicar(calls[i])
            /\ ~InSignatureDoc(calls[i].file.sha)) =>
            FollowsHeuristics(calls[i].res, evaluate_heuristics(calls[i].path, calls[i].file, TRUE))

C3_Witness ==
    \E i \in 1..Len(calls) :
        /\ calls[i].file.readable /\ ~TriggersEicar(calls[i])
        /\ ~InSignatureDoc(calls[i].file.sha)
        /\ args.heuristics
        /\ calls[i].res.status = "heuristic_flag"
        /\ calls[i].res.risk_score = 25

\* every verdict of the scan: in its results, in the archive being expanded,
\* in the reports of the history store
AllVerdicts ==
    SetOf(results) \cup SetOf(arc.results)
        \cup UNION {SetOf(history[k].results) : k \in 1..Len(history)}

Rule(n) == [score |-> n, reasons |-> <<>>]

\* the capped sum of every combination of rule contributions
RuleCombinationScores ==
    {capped_result(SumRules(Rule(a), Rule(b), Rule(c + d + e), Rule(m), Rule(h))).risk_score :
        a \in {0, 12}, b \in {0, 12, 25}, c \in {0, 8}, d \in {0, 10}, e \in {0, 6},
        m \in {0, 30}, h \in {0, 18}}

\* C4: every verdict has a risk_score in 0..100, and a score that comes from
\* the heuristic rules alone is at most 99, for every combination of rule
\* contributions.
C4_ScoreRange ==
    /\ \A v \in AllVerdicts : v.risk_score \in 0..100
    /\ \A i \in 1..Len(calls) :
          (calls[i].file.readable /\ calls[i].res.status = "heuristic_flag") =>
              calls[i].res.risk_score <= 99
    /\ \A n \in RuleCombinationScores : n \in 0..99

C4_Witness ==
    \E i \in 1..Len(calls) :
        /\ calls[i].res.status = "heuristic_flag"
        /\ calls[i].res.risk_score = 99
        /\ RawHeuristics(calls[i].path, calls[i].file, TRUE).score > 99

\* the verdict v is flagged and explains why
Flagged(v) == v.status # "clean" /\ v.reasons # <<>>

\* the report holds what the claim asks for the yielded file y: a verdict for a
\* plain file, flagged when the file is unreadable; a flagged verdict for an
\* archive that is corrupt or cannot be opened; a verdict for every entry of
\* a valid archive, flagged when the entry fails to extract
Covers(report, y) ==
    IF ~is_archive_path(y)
    THEN \E v \in SetOf(report.results) :
            v.path = y /\ (~FileAt(y).readable => Flagged(v))
    ELSE IF FileAt(y).zip.state # "valid" \/ ~FileAt(y).readable
    THEN \E v \in SetOf(report.results) : v.path = y /\ Flagged(v)
    ELSE \A e \in SetOf(FileAt(y).zip.entries) :
            ~DirName(e.name) =>
                \E v \in SetOf(report.results) :
                    v.path = y \o "!" \o e.name /\ (~e.extractOk => Flagged(v))

\* C5: in a directory scan no bad file aborts the scan: an unreadable file, a
\* corrupt archive, an archive that cannot be opened and an entry that fails
\* to extract each become a flagged verdict, and the scan ends with a
\* persisted report that covers every file the walker yields.
C5_BadFileNeverAborts ==
    (args.cmd = "scan-dir" /\ safe_is_dir(args.target) /\ pc \in {"done", "failed"}
        /\ ~extract_sha256_set_raises(sigFile)) =>
        /\ pc = "done"
        /\ Len(history) = 1
        /\ \A y \in SetOf(yielded) : Covers(history[1], y)
        /\ \A p \in DOMAIN fs.files :
              (PathParent(p) = args.target /\ exclude_patterns = <<>>) => p \in SetOf(yielded)

\* nothing is left of the scratch directory t
ScratchGone(t) ==
    /\ \A d \in tmp.dirs : ~Under(d, t)
    /\ \A q \in DOMAIN tmp.files : ~Under(q, t)

NestedName(n) == \E suf \in {".zip", ".jar"} : EndsWith(Lower(n), suf)

\* the entries of the archive being expanded that the loop has been through
ProcessedEntries ==
    SubSeq(FileAt(arc.path).zip.entries, 1,
           Len(FileAt(arc.path).zip.entries) - Len(arc.members))

\* the verdicts of the archive being expanded for the entry named n
EntryVerdicts(n) ==
    {i \in 1..Len(arc.results) : arc.results[i].path = arc.path \o "!" \o n}

\* the entry named n was neither extracted nor classified
Untouched(n) ==
    /\ ZipExtractTarget(arc.temp_dir, n) \notin DOMAIN tmp.files
    /\ \A i \in 1..Len(calls) : calls[i].path # PurePathJoin(arc.temp_dir, n)

EntryHandled(e) ==
    IF DirName(e.name) THEN EntryVerdicts(e.name) = {}
    ELSE /\ Cardinality(EntryVerdicts(e.name)) = 1
         /\ NestedName(e.name) =>
               /\ \A i \in EntryVerdicts(e.name) :
                     arc.results[i].status = "heuristic_flag" /\ arc.results[i].risk_score = 50
               /\ Untouched(e.name)

NonDirCount(entries) == Cardinality({i \in 1..Len(entries) : ~DirName(entries[i].name)})

\* C7: in a valid archive an entry whose name ends in .zip or .jar, in any
\* letter case, is neither extracted nor classified and gets one
\* heuristic_flag verdict with score 50; every other entry that is no
\* directory gets one verdict with the path archive!entry; scan-file on a valid
\* archive reports one verdict per such entry and files_scanned one more.
C7_NestedNotExtracted ==
    /\ (pc \in {"archive_loop", "archive_finally"} /\ zip_open(FileAt(arc.path)) = "ok") =>
          /\ \A e \in SetOf(ProcessedEntries) : EntryHandled(e)
          /\ Len(arc.results) = NonDirCount(ProcessedEntries)
    /\ (pc = "done" /\ args.cmd = "scan-file" /\ is_archive_path(args.target)
            /\ zip_open(FileAt(args.target)) = "ok") =>
          /\ Len(history[1].results) = NonDirCount(FileAt(args.target).zip.entries)
          /\ history[1].summary.files_scanned
                = 1 + NonDirCount(FileAt(args.target).zip.entries)

\* the scan of an archive with one clean file and one nested .zip entry
C7_Witness ==
    /\ pc = "done"
    /\ args.cmd = "scan-file"
    /\ FileAt(args.target) = Archives.nested
    /\ Len(history[1].results) = 2
    /\ history[1].results[2].risk_score = 50
    /\ history[1].summary.files_scanned = 3

HasGlobPattern == \E i \in 1..Len(exclude_patterns) : HasGlobChar(exclude_patterns[i])

\* a pattern without wildcards is a prefix of the lowercase path
PrefixExcluded(p) ==
    \E i \in 1..Len(exclude_patterns) :
        /\ exclude_patterns[i] # ""
        /\ ~HasGlobChar(exclude_patterns[i])
        /\ StartsWith(Lower(p), Lower(exclude_patterns[i]))

\* the directories from the root down to d
DirsDownTo(d) == {x \in Ancestors(d) : Under(x, args.target)}

\* the subdirectories under the root that a prefix pattern excludes
ExcludedDirs ==
    {d \in DOMAIN fs.dirs : d # args.target /\ Under(d, args.target) /\ PrefixExcluded(d)}

\* C8: in a recursive walk with prefix patterns the walker lists no directory,
\* yields no file and reads no file in a subdirectory that a pattern
\* excludes, and yields every file under the root that no pattern excludes
\* (and that lies in directories that can be listed).
C8_PrunedSubtree ==
    (args.cmd = "scan-dir" /\ args.recursive /\ ~HasGlobPattern /\ ExcludedDirs # {}) =>
        /\ \A d \in ExcludedDirs :
              /\ \A x \in listed : ~Under(x, d)
              /\ \A y \in SetOf(yielded) : ~Under(y, d)
              /\ \A i \in 1..Len(calls) : ~Under(calls[i].path, d)
        /\ pc \in {"report", "done"} =>
              \A p \in DOMAIN fs.files :
                  (/\ Under(p, args.target)
                   /\ ~PrefixExcluded(p)
                   /\ \A d \in DirsDownTo(PathParent(p)) : fs.dirs[d].listable)
                      => p \in SetOf(yielded)

C8_Witness ==
    /\ pc = "done"
    /\ args.cmd = "scan-dir" /\ args.recursive /\ ~HasGlobPattern
    /\ "/scan/skip" \in ExcludedDirs
    /\ "/scan/skip" \notin listed
    /\ "/scan/keep/a.txt" \in SetOf(yielded)
    /\ "/scan/skip/secret.txt" \notin SetOf(yielded)

\* the characters a bracket expression of a pattern lists: those between the
\* [ at j and the ] at k
ClassChars(pat, j, k) == {Char(pat, x) : x \in (j + 1)..(k - 1)}

\* the first ] that closes the [ at j, 0 when there is none
ClassEnd(pat, j) ==
    IF \E k \in (j + 2)..Len(pat) : Char(pat, k) = "]"
    THEN CHOOSE k \in (j + 2)..Len(pat) :
            Char(pat, k) = "]" /\ \A x \in (j + 2)..(k - 1) : Char(pat, x) # "]"
    ELSE 0

RECURSIVE GlobFrom(_, _, _, _)
\* s from position i on matches pat from position j on, as fnmatch.fnmatch
\* matches: * is any run of characters, ? any one character, [abc] one of the
\* characters listed, any other character itself
GlobFrom(s, i, pat, j) ==
    IF j > Len(pat) THEN i > Len(s)
    ELSE IF Char(pat, j) = "*"
         THEN \E k \in i..(Len(s) + 1) : GlobFrom(s, k, pat, j + 1)
    ELSE IF i > Len(s) THEN FALSE
    ELSE IF Char(pat, j) = "?" THEN GlobFrom(s, i + 1, pat, j + 1)
    ELSE IF Char(pat, j) = "[" /\ ClassEnd(pat, j) # 0
         THEN /\ Char(s, i) \in ClassChars(pat, j, ClassEnd(pat, j))
              /\ GlobFrom(s, i + 1, pat, ClassEnd(pat, j) + 1)
    ELSE Char(s, i) = Char(pat, j) /\ GlobFrom(s, i + 1, pat, j + 1)

\* a pattern of the exclusion list matches the normalized lowercase path
PatternExcluded(p) ==
    \E i \in 1..Len(exclude_patterns) :
        /\ exclude_patterns[i] # ""
        /\ IF HasGlobChar(exclude_patterns[i])
           THEN GlobFrom(Lower(p), 1, exclude_patterns[i], 1)
           ELSE StartsWith(Lower(p), exclude_patterns[i])

\* the files the walk is to yield: those no pattern matches, in the root (or,
\* in a recursive walk, in subdirectories no pattern matches), where the
\* directories can be listed
FilesToYield ==
    {p \in DOMAIN fs.files :
        /\ Under(p, args.target)
        /\ ~PatternExcluded(p)
        /\ args.recursive \/ PathParent(p) = args.target
        /\ \A d \in DirsDownTo(PathParent(p)) :
              fs.dirs[d].listable /\ (d = args.target \/ ~PatternExcluded(d))}

\* C9: with a glob pattern in the exclusion list the walker, recursive or
\* not, omits exactly the files and subdirectories whose normalized lowercase
\* path matches a pattern and yields every other file under the root.
C9_GlobExclusion ==
    (args.cmd = "scan-dir" /\ pc \in {"report", "done"} /\ HasGlobPattern) =>
        SetOf(yielded) = FilesToYield

\* the scan of the directory with one clean text file and invoice.pdf.exe
\* (PE header) has ended; heuristics are enabled, no exclusions are
\* configured, the signature set holds neither digest
InvoiceScanDone ==
    /\ pc = "done"
    /\ args.cmd = "scan-dir"
    /\ fs = TreeInvoice
    /\ args.heuristics
    /\ exclude_patterns = <<>>
    /\ \A p \in DOMAIN fs.files : ~InSignatureDoc(fs.files[p].sha)

IsMasqueradeReason(r) == StartsWith(r, "Possible double-extension masquerading")

IsMismatchReason(r) == StartsWith(r, "Extension/header mismatch")

FlaggedVerdicts(report) == {v \in SetOf(report.results) : v.status # "clean"}

\* C10 as stated: the scan reports files_scanned = 2 and flagged = 1, and the
\* reasons of the flagged verdict include the double-extension masquerading
\* reason and the extension/header mismatch reason.
C10_InvoiceBothReasons ==
    InvoiceScanDone =>
        /\ history[1].summary = [files_scanned |-> 2, flagged |-> 1]
        /\ \A v \in FlaggedVerdicts(history[1]) :
              /\ \E r \in SetOf(v.reasons) : IsMasqueradeReason(r)
              /\ \E r \in SetOf(v.reasons) : IsMismatchReason(r)

\* C10 as amended: the scan reports files_scanned = 2 and flagged = 1, and
\* the reasons of the flagged verdict, the one of invoice.pdf.exe, include the
\* double-extension masquerading reason and no extension/header mismatch
\* reason: the extension .exe expects the PE header the file has.
C10_InvoiceMasqueradeOnly ==
    InvoiceScanDone =>
        /\ history[1].summary = [files_scanned |-> 2, flagged |-> 1]
        /\ \A v \in FlaggedVerdicts(history[1]) :
              /\ v.path = "/scan/invoice.pdf.exe"
              /\ \E r \in SetOf(v.reasons) : IsMasqueradeReason(r)
              /\ \A r \in SetOf(v.reasons) : ~IsMismatchReason(r)

C10_Witness ==
    /\ InvoiceScanDone
    /\ Cardinality(FlaggedVerdicts(history[1])) = 1
    /\ history[1].summary = [files_scanned |-> 2, flagged |-> 1]

\* the target of the invocation is missing or of the wrong kind
InputError ==
    \/ args.cmd = "scan-file" /\ args.target \notin DOMAIN fs.files
    \/ args.cmd = "scan-dir" /\ args.target \notin DOMAIN fs.dirs

\* C11: a scan invocation that completes has appended its report to the
\* history store exactly once (the store holds nothing of it before that),
\* and an invocation whose target is missing, not a file or not a directory
\* ends with nothing appended and a non-zero exit code.
C11_ReportOnce ==
    /\ pc = "done" =>
          /\ Len(history) = 1
          /\ history[1].target = args.target
          /\ history[1].results = results
          /\ exitCode = 0
    /\ pc # "done" => history = <<>>
    /\ (InputError /\ pc # "main") =>
          pc = "failed" /\ exitCode > 0 /\ history = <<>> /\ results = <<>>

C11_Witness ==
    /\ pc = "done"
    /\ args.cmd = "scan-dir"
    /\ Len(results) > 1
    /\ Len(history) = 1

\* the reports in the store the concurrent invocations write to
InStore == SetOf(stored_reports(store, writers[1].storage))

\* C12: history persistence is append-only under any interleaving of
\* writers: every report the store held at the start and every report whose
\* append has returned is in the store.
C12_AppendOnly ==
    writers # <<>> => \A r \in SetOf(history) : r \in InStore

\* the units of one examined file: a file that is no archive is one unit, an
\* archive is one unit plus one per entry that is no directory, and an
\* archive that cannot be expanded is one unit
UnitsOf(path) ==
    IF is_archive_path(path) /\ zip_open(FileAt(path)) = "ok"
    THEN 1 + NonDirCount(FileAt(path).zip.entries)
    ELSE 1

RECURSIVE UnitsOfAll(_)
UnitsOfAll(paths) ==
    IF paths = <<>> THEN 0 ELSE UnitsOf(Head(paths)) + UnitsOfAll(Tail(paths))

\* the files a finished scan examined: the target, or what the walker yielded
Examined == IF args.cmd = "scan-file" THEN <<args.target>> ELSE yielded

\* C13: in every report files_scanned is the number of units examined (a
\* corrupt archive counting as one) and flagged is the number of verdicts
\* whose status is not clean.
C13_SummaryCounts ==
    pc = "done" =>
        /\ history[1].summary.files_scanned = UnitsOfAll(Examined)
        /\ history[1].summary.flagged
              = Cardinality({i \in 1..Len(results) : results[i].status # "clean"})

\* the examined file at path y is readable, does not trigger the EICAR check
\* and has its digest in the signature set
KnownDigest(y) ==
    /\ FileAt(y).readable
    /\ ~TriggersEicar([path |-> y, file |-> FileAt(y)])
    /\ InSignatureDoc(FileAt(y).sha)

\* C14: every readable file examined, as the target or yielded by the
\* walker, .zip and .jar archives included, whose digest is in the signature
\* set and that does not trigger the EICAR check has a signature_match
\* verdict with score 100 in the report.
C14_KnownDigestReported ==
    pc = "done" =>
        \A i \in 1..Len(Examined) :
            KnownDigest(Examined[i]) =>
                \E v \in SetOf(history[1].results) :
                    /\ v.path = Examined[i]
                    /\ v.status = "signature_match" /\ v.risk_score = 100

\* the invocation has a target it can scan
ValidTarget ==
    \/ args.cmd = "scan-file" /\ safe_is_file(args.target)
    \/ args.cmd = "scan-dir" /\ safe_is_dir(args.target)

\* C15: loading the signature set never fails: whether signatures.json is
\* absent, unparseable, or parseable with the wrong shape (a list as root,
\* hashes that is no object, hashes.sha256 that is no list), the invocation
\* gets a signature set and goes on to scan; it never ends in the handler for
\* unexpected errors (exit code 1), and a scan that ends has produced a
\* report.
C15_SignatureLoadNeverFails ==
    (ValidTarget /\ pc # "main") =>
        /\ ~(pc = "failed" /\ exitCode = 1)
        /\ sig_set = extract_sha256_set(sigFile)
        /\ pc = "done" => Len(history) = 1

\* the path lies inside a scratch directory made by the expander
InScratch(p) == \E t \in scratchDirs : Under(p, t)

\* the classifier calls made for archive entries
EntryCalls == {i \in 1..Len(calls) : Contains(calls[i].res.path, "!")}

\* C16: whatever the name of an archive entry, the expander creates
\* directories and files only inside its scratch directory, and the path it
\* hands to the classifier is a location inside the scratch directory that
\* holds the extracted entry.
C16_ExtractionConfined ==
    /\ \A d \in tmp.dirs : InScratch(d)
    /\ \A q \in DOMAIN tmp.files : InScratch(q)
    /\ \A i \in EntryCalls :
          /\ InScratch(Resolve(calls[i].path))
          /\ calls[i].file # MissingFile

=============================================================================
